---- MODULE Spec2Model ----
(***************************************************************************)
(* A model of nuts::math::vector<T, Dimension> (src/math/vector.h) and of  *)
(* its chained initializer detail::comma_initializer.                      *)
(*                                                                         *)
(* Objects of the model                                                    *)
(*   v, w : two objects of type vector<int, 3>      (vector3i)             *)
(*   d    : one object  of type vector<double, 2>   (vector2d)             *)
(*   param: the by-value parameter `vec` of the second operator<<          *)
(*                                                                         *)
(* Numbers.  An int element is the integer itself.  A double element is    *)
(* held in half units: the integer h stands for the double h/2, so that    *)
(* static_cast<int>(double) truncates toward zero and static_cast<double>  *)
(* (int) doubles the representation; neither conversion is the identity.   *)
(*                                                                         *)
(* assert() is modelled as compiled in (no NDEBUG): a failed assertion     *)
(* aborts the program, which the model records in `failed`; nothing runs   *)
(* after it.                                                               *)
(***************************************************************************)
EXTENDS Integers, Sequences, FiniteSets, TLC

VARIABLES
  v,        \* contents of the vector3i object v   (data_, src line 317)
  w,        \* contents of the vector3i object w
  d,        \* contents of the vector2d object d, in half units
  op,       \* the operation performed last and its arguments
  res,      \* what the last operation returned
  failed,   \* TRUE once an assert() has failed (abort)
  shadow,   \* history: per slot of v, the value most recently stored in it
  bstate,   \* comma_initializer: "none", "open" (alive), "done" (destroyed)
  index_,   \* comma_initializer::index_
  vec_,     \* comma_initializer::vec_ : which storage it refers to
  param,    \* contents of operator<<'s by-value parameter `vec`
  accepted, \* history: the values the chain has accepted, in half units
  vec0      \* history: contents of the referenced storage when the chain began

vars == <<v, w, d, op, res, failed, shadow, bstate, index_, vec_, param, accepted, vec0>>

(***************************************************************************)
(* Program constants and bounds                                            *)
(***************************************************************************)
Dimension == 3      \* vector3i
Dimension2 == 2     \* vector2d
MaxVal == 1         \* int elements range over -MaxVal..MaxVal
MaxStream == 1      \* values fed to the initializer: 0 .. MaxStream+1 half units

IntVals == (-MaxVal)..MaxVal
HalfVals == (-(MaxVal + 1))..(MaxVal + 1)
StreamVals == 0..(MaxStream + 1)
TargetVals == 0..MaxStream

Vec(n, S) == [1..n -> S]
Zeros(n) == [i \in 1..n |-> 0]

(***************************************************************************)
(* static_cast between the two element types                               *)
(***************************************************************************)
ToInt(h) == IF h >= 0 THEN h \div 2 ELSE -((-h) \div 2)
ToDouble(i) == 2 * i
StaticCast(from, to, x) ==
  IF from = to THEN x
  ELSE IF to = "int" THEN ToInt(x) ELSE ToDouble(x)

NoArg == [ty |-> "", elems |-> <<>>]
NoOp == [name |-> "init", dst |-> "", src |-> "", idx |-> 0, val |-> 0, arg |-> NoArg]
NoRes == [ref |-> "", val |-> 0, lt |-> FALSE, eq |-> FALSE, ne |-> FALSE,
          gt |-> FALSE, le |-> FALSE, ge |-> FALSE]

(***************************************************************************)
(* detail::comma_initializer                                               *)
(*                                                                         *)
(* A value of the stream is a record [ty, raw]: its C++ type and its       *)
(* representation.  A builder snapshot is a record                         *)
(*   [vec: contents of the referenced storage, idx: index_,                *)
(*    acc: values accepted so far, failed: an assert() has fired].         *)
(***************************************************************************)
Item(ty, raw) == [ty |-> ty, raw |-> raw]

\* assert(index_ < Dimension), line 374
CommaGuard(idx) == idx < Dimension

\* comma_initializer::operator,(T2&& val)
PutScalar(b, item) ==
  IF b.failed THEN b
  ELSE IF ~CommaGuard(b.idx) THEN [b EXCEPT !.failed = TRUE]
  ELSE [vec    |-> [b.vec EXCEPT ![b.idx + 1] = StaticCast(item.ty, "int", item.raw)],
        idx    |-> b.idx + 1,
        acc    |-> Append(b.acc, item),
        failed |-> FALSE]

\* comma_initializer::operator,(const vector<T2, Dimension2>& other): the range-for
\* from element k on.  src = [ty, elems, alias]; when `other` is the very object the
\* initializer refers to (alias), each element is read when its turn comes.
RECURSIVE PutVector(_, _, _)
PutVector(b, src, k) ==
  IF k > Len(src.elems) THEN b
  ELSE LET e == IF src.alias THEN b.vec[k] ELSE src.elems[k]
       IN  PutVector(PutScalar(b, Item(src.ty, e)), src, k + 1)

\* a destructor check that only rejects too many values
DtorGuardAtMost(idx) == idx <= Dimension

\* assert(index_ == Dimension), line 368
DtorGuard(idx) == idx = Dimension

\* the storage vec_ refers to
Referent == IF vec_ = "v" THEN v ELSE param

Fresh(contents) == [vec |-> contents, idx |-> 0, acc |-> <<>>, failed |-> FALSE]
Current == [vec |-> Referent, idx |-> index_, acc |-> accepted, failed |-> failed]

\* sub-vectors a chain can name: temporaries of type vector<double,2> and
\* vector<double,3>, and the object v itself
TempVectors ==
  { [ty |-> "double", elems |-> e, alias |-> FALSE] :
      e \in Vec(Dimension2, StreamVals) \cup Vec(Dimension, StreamVals) }
SelfVector(isReferent) == [ty |-> "int", elems |-> v, alias |-> isReferent]

BuilderFrame == UNCHANGED <<w, d, res, shadow>>

\* operator<<(vector<T,Dimension>& vec, T2&& val) with a scalar val: the
\* initializer refers to v and its constructor appends val
StartScalar ==
  /\ bstate = "none" /\ ~failed
  /\ \E h \in StreamVals :
       LET b == PutScalar(Fresh(v), Item("double", h)) IN
       /\ v' = b.vec /\ index_' = b.idx /\ accepted' = b.acc /\ failed' = b.failed
       /\ op' = [NoOp EXCEPT !.name = "start_scalar", !.val = h]
  /\ vec_' = "v" /\ bstate' = "open" /\ vec0' = v
  /\ UNCHANGED param
  /\ BuilderFrame

\* operator<<(vector<T,Dimension>& vec, T2&& val) with val an lvalue vector (the
\* second overload cannot bind an lvalue): T2 is a reference to a vector and the
\* constructor's `*this, val` is the vector form of operator,
StartLvalueVector ==
  /\ bstate = "none" /\ ~failed
  /\ \E src \in TempVectors \cup {SelfVector(TRUE)} :
       LET b == PutVector(Fresh(v), src, 1) IN
       /\ v' = b.vec /\ index_' = b.idx /\ accepted' = b.acc /\ failed' = b.failed
       /\ op' = [NoOp EXCEPT !.name = "start_lvalue", !.src = IF src.alias THEN "v" ELSE "temp"]
  /\ vec_' = "v" /\ bstate' = "open" /\ vec0' = v
  /\ UNCHANGED param
  /\ BuilderFrame

\* operator<<(vector<T,Dimension> vec, vector<T2,Dimension2>&& other): chosen for an
\* rvalue vector (the more specialized template).  `vec` is a by-value copy of v; the
\* initializer refers to that parameter, and the constructor fills it while it is
\* alive.  v itself is not touched.
StartRvalueVector ==
  /\ bstate = "none" /\ ~failed
  /\ \E src \in TempVectors :
       LET b == PutVector(Fresh(v), src, 1) IN
       /\ param' = b.vec /\ index_' = b.idx /\ accepted' = b.acc /\ failed' = b.failed
       /\ op' = [NoOp EXCEPT !.name = "start_rvalue", !.src = "temp"]
  /\ vec_' = "param" /\ bstate' = "open" /\ vec0' = v
  /\ UNCHANGED v
  /\ BuilderFrame

\* The stores of one append through vec_.  When vec_ refers to v they land in v.
\* When it refers to operator<<'s parameter, that parameter's lifetime ended when
\* operator<< returned: the stores go through a dangling reference, and the build
\* decides whether they land in the dead storage or are dropped.
Store(b) ==
  IF vec_ = "v"
    THEN v' = b.vec /\ UNCHANGED param
    ELSE /\ UNCHANGED v
         /\ param' \in {b.vec, param}

\* `, val` with a scalar val
AppendScalar ==
  /\ bstate = "open" /\ ~failed
  /\ \E h \in StreamVals :
       LET b == PutScalar(Current, Item("double", h)) IN
       /\ Store(b)
       /\ index_' = b.idx /\ accepted' = b.acc /\ failed' = b.failed
       /\ op' = [NoOp EXCEPT !.name = "append_scalar", !.val = h]
  /\ UNCHANGED <<vec_, bstate, vec0>>
  /\ BuilderFrame

\* `, other` with a vector other (lvalue or rvalue: both bind the const reference)
AppendVector ==
  /\ bstate = "open" /\ ~failed
  /\ \E src \in TempVectors \cup {SelfVector(vec_ = "v")} :
       LET b == PutVector(Current, src, 1) IN
       /\ Store(b)
       /\ index_' = b.idx /\ accepted' = b.acc /\ failed' = b.failed
       /\ op' = [NoOp EXCEPT !.name = "append_vector",
                             !.src = IF src.ty = "int" THEN "v" ELSE "temp",
                             !.idx = Len(src.elems)]
  /\ UNCHANGED <<vec_, bstate, vec0>>
  /\ BuilderFrame

\* ~comma_initializer(), at the end of the full expression
Dispose ==
  /\ bstate = "open" /\ ~failed
  /\ failed' = ~DtorGuard(index_)
  /\ bstate' = IF DtorGuard(index_) THEN "done" ELSE "open"
  /\ op' = [NoOp EXCEPT !.name = "dispose"]
  /\ UNCHANGED <<v, param, index_, vec_, accepted, vec0>>
  /\ BuilderFrame

InitBuilder ==
  /\ v \in Vec(Dimension, TargetVals)
  /\ w = Zeros(Dimension) /\ d = Zeros(Dimension2)
  /\ op = NoOp /\ res = NoRes /\ failed = FALSE
  /\ shadow = Zeros(Dimension)
  /\ bstate = "none" /\ index_ = 0 /\ vec_ = "v" /\ param = Zeros(Dimension)
  /\ accepted = <<>> /\ vec0 = v

NextBuilder ==
  \/ StartScalar
  \/ StartLvalueVector
  \/ StartRvalueVector
  \/ AppendScalar
  \/ AppendVector
  \/ Dispose

SpecBuilder == InitBuilder /\ [][NextBuilder]_vars

(***************************************************************************)
(* Converting assignment and converting construction                       *)
(***************************************************************************)
TypeOf(name) == IF name = "d" THEN "double" ELSE "int"
Contents(name) == IF name = "v" THEN v ELSE IF name = "w" THEN w ELSE d

\* a converting assignment that leaves the elements past the source untouched
ConvAssignNoFill(self, T, other, T2, same) ==
  IF same THEN self
  ELSE [i \in 1..Len(self) |->
          IF i <= Len(other) THEN StaticCast(T2, T, other[i]) ELSE self[i]]

\* a converting assignment without the identity test that clears *this first and
\* copies afterwards
ConvAssignClearFirst(self, T, other, T2, same) ==
  LET from == IF same THEN Zeros(Len(self)) ELSE other
  IN  [i \in 1..Len(self) |->
          IF i <= Len(from) THEN StaticCast(T2, T, from[i]) ELSE 0]

\* vector::operator=(const vector<T2, Dimension2>& other) on contents: self and T are
\* *this and its element type, other and T2 the source's, same is the identity test
\* this == reinterpret_cast<const vector*>(&other).  std::transform into
\* data_.begin(), then std::fill of the rest with static_cast<T>(0).
ConvAssign(self, T, other, T2, same) ==
  IF same THEN self
  ELSE [i \in 1..Len(self) |->
          IF i <= Len(other) THEN StaticCast(T2, T, other[i]) ELSE 0]

\* explicit vector(const vector<T2, Dimension2>& other) { *this = other; }
\* data_ is default-initialized (indeterminate: junk) when the assignment runs, and
\* the new object is never `other`
ConvConstruct(junk, T, other, T2) == ConvAssign(junk, T, other, T2, FALSE)

\* temporaries the conversions are given: vector<int,2> and vector<double,2>
IntTemps == { [ty |-> "int", elems |-> e] : e \in Vec(Dimension2, IntVals) }
DoubleTemps == { [ty |-> "double", elems |-> e] : e \in Vec(Dimension2, HalfVals) }

\* (target, source) pairs of objects with Dimension2 <= Dimension; a pair of the same
\* object is the converting assignment named explicitly, x.operator=<T, N>(x)
ObjectPairs == { <<"v", "d">>, <<"v", "v">>, <<"d", "d">>, <<"v", "w">> }

SetObject(name, contents) ==
  /\ v' = IF name = "v" THEN contents ELSE v
  /\ d' = IF name = "d" THEN contents ELSE d
  /\ UNCHANGED w

AssignFrame == UNCHANGED <<res, failed, shadow, bstate, index_, vec_, param, accepted, vec0>>

\* dst = src for two named objects
ConvAssignObject ==
  /\ \E pr \in ObjectPairs :
       /\ SetObject(pr[1], ConvAssign(Contents(pr[1]), TypeOf(pr[1]),
                                      Contents(pr[2]), TypeOf(pr[2]), pr[1] = pr[2]))
       /\ op' = [NoOp EXCEPT !.name = "conv_assign", !.dst = pr[1], !.src = pr[2]]
  /\ AssignFrame

\* dst = temporary: v from a vector<double,2>, d from a vector<int,2>
ConvAssignTemp ==
  /\ \E dst \in {"v", "d"} :
     \E t \in IF dst = "v" THEN DoubleTemps ELSE IntTemps :
       /\ SetObject(dst, ConvAssign(Contents(dst), TypeOf(dst), t.elems, t.ty, FALSE))
       /\ op' = [NoOp EXCEPT !.name = "conv_assign", !.dst = dst, !.src = "temp", !.arg = t]
  /\ AssignFrame

\* a new object of v's type constructed from d or from a vector<int,2>, in the storage
\* v occupied: what v held is the indeterminate content of the new data_
ConvConstructV ==
  /\ \E t \in IntTemps \cup {[ty |-> "object", elems |-> d]} :
       /\ SetObject("v", ConvConstruct(v, "int", t.elems,
                                       IF t.ty = "object" THEN "double" ELSE t.ty))
       /\ op' = [NoOp EXCEPT !.name = "conv_construct", !.dst = "v",
                             !.src = IF t.ty = "object" THEN "d" ELSE "temp",
                             !.arg = IF t.ty = "object" THEN NoArg ELSE t]
  /\ AssignFrame

InitAssign ==
  /\ v \in Vec(Dimension, IntVals)
  /\ d \in Vec(Dimension2, HalfVals)
  /\ w = [i \in 1..Dimension |-> IF i = 2 THEN -MaxVal ELSE MaxVal]
  /\ op = NoOp /\ res = NoRes /\ failed = FALSE
  /\ shadow = Zeros(Dimension)
  /\ bstate = "none" /\ index_ = 0 /\ vec_ = "v" /\ param = Zeros(Dimension)
  /\ accepted = <<>> /\ vec0 = Zeros(Dimension)

NextAssign ==
  \/ ConvAssignObject
  \/ ConvAssignTemp
  \/ ConvConstructV

SpecAssign == InitAssign /\ [][NextAssign]_vars

(***************************************************************************)
(* Arithmetic, negation and comparison on the vector3i objects v and w     *)
(***************************************************************************)
InRange(vec) == \A i \in 1..Len(vec) : vec[i] \in IntVals

\* operator+, operator-, operator*: std::transform into a fresh `result`
\* (result_value_type of int and int is int)
Plus(a, b) == [i \in 1..Len(a) |-> a[i] + b[i]]
Minus(a, b) == [i \in 1..Len(a) |-> a[i] - b[i]]
Times(a, s) == [i \in 1..Len(a) |-> a[i] * s]

\* operator+=, operator-=: *this = *this (+|-) other; the right operand may be *this
PlusAssign(self, other) == Plus(self, other)
MinusAssign(self, other) == Minus(self, other)

\* a scaling done element by element in *this itself: once element k has been
\* scaled, the referenced scalar has changed for the elements after it
TimesAssignInPlace(self, s, k) ==
  [i \in 1..Len(self) |->
     IF k > 0 /\ i > k THEN self[i] * (self[k] * self[k])
     ELSE self[i] * (IF k > 0 THEN self[k] ELSE s)]

\* operator*=(const_reference val): *this = *this * val.  val is a reference: k > 0
\* says it refers to element k of *this, k = 0 that it refers to storage outside
\* *this holding s.  The product is built in a fresh vector before *this is assigned.
TimesAssign(self, s, k) == Times(self, IF k > 0 THEN self[k] ELSE s)

\* vector& operator-() const { *this = *this * -1; return *this; }
\* In a const member function *this is const: neither the assignment nor the
\* binding of the returned vector& is well-formed, so the function cannot be
\* instantiated and a program that negates a vector is rejected by the compiler.
NegateWellFormed == FALSE
NegateBody(self) == Times(self, -1)

\* a comparison that takes the last element as the most significant
RECURSIVE LexLessFromBack(_, _, _)
LexLessFromBack(a, b, i) ==
  LET j == Len(a) + 1 - i IN
  IF i > Len(a) THEN FALSE
  ELSE IF a[j] < b[j] THEN TRUE
  ELSE IF b[j] < a[j] THEN FALSE
  ELSE LexLessFromBack(a, b, i + 1)

\* std::lexicographical_compare over two arrays of equal length, from element i on
RECURSIVE LexLess(_, _, _)
LexLess(a, b, i) ==
  IF i > Len(a) THEN FALSE
  ELSE IF a[i] < b[i] THEN TRUE
  ELSE IF b[i] < a[i] THEN FALSE
  ELSE LexLess(a, b, i + 1)
ArrayEq(a, b) == \A i \in 1..Len(a) : a[i] = b[i]

\* the six comparison operators: each forwards to the std::array operator
VecLess(a, b) == LexLess(a, b, 1)
VecEq(a, b) == ArrayEq(a, b)
VecNe(a, b) == ~ArrayEq(a, b)
VecGt(a, b) == LexLess(b, a, 1)
VecGe(a, b) == ~LexLess(a, b, 1)
VecLe(a, b) == ~LexLess(b, a, 1)

\* v is the left operand of the compound forms; v and w are right operands
IntObjects == {"v", "w"}

SetIntObject(name, contents) ==
  /\ v' = IF name = "v" THEN contents ELSE v
  /\ w' = IF name = "w" THEN contents ELSE w
  /\ UNCHANGED d

ArithFrame == UNCHANGED <<failed, shadow, bstate, index_, vec_, param, accepted, vec0>>

\* dst += src
DoPlusAssign ==
  /\ \E dst \in {"v"}, src \in IntObjects :
       LET r == PlusAssign(Contents(dst), Contents(src)) IN
       /\ InRange(r)
       /\ SetIntObject(dst, r)
       /\ op' = [NoOp EXCEPT !.name = "plus_assign", !.dst = dst, !.src = src]
       /\ res' = [NoRes EXCEPT !.ref = dst]
  /\ ArithFrame

\* dst -= src
DoMinusAssign ==
  /\ \E dst \in {"v"}, src \in IntObjects :
       LET r == MinusAssign(Contents(dst), Contents(src)) IN
       /\ InRange(r)
       /\ SetIntObject(dst, r)
       /\ op' = [NoOp EXCEPT !.name = "minus_assign", !.dst = dst, !.src = src]
       /\ res' = [NoRes EXCEPT !.ref = dst]
  /\ ArithFrame

\* dst *= s with s a temporary or a variable outside dst
DoTimesAssignValue ==
  /\ \E dst \in {"v"}, s \in IntVals :
       LET r == TimesAssign(Contents(dst), s, 0) IN
       /\ InRange(r)
       /\ SetIntObject(dst, r)
       /\ op' = [NoOp EXCEPT !.name = "times_assign", !.dst = dst, !.src = "temp", !.val = s]
       /\ res' = [NoRes EXCEPT !.ref = dst]
  /\ ArithFrame

\* dst *= dst[k - 1]: the scalar is a reference to one of dst's own elements
DoTimesAssignElement ==
  /\ \E dst \in {"v"}, k \in 1..Dimension :
       LET r == TimesAssign(Contents(dst), Contents(dst)[k], k) IN
       /\ InRange(r)
       /\ SetIntObject(dst, r)
       /\ op' = [NoOp EXCEPT !.name = "times_assign", !.dst = dst, !.src = dst,
                             !.idx = k, !.val = Contents(dst)[k]]
       /\ res' = [NoRes EXCEPT !.ref = dst]
  /\ ArithFrame

\* -x
DoNegate ==
  /\ \E x \in {"v"} :
       /\ IF NegateWellFormed
            THEN SetIntObject(x, NegateBody(Contents(x))) /\ res' = [NoRes EXCEPT !.ref = x]
            ELSE UNCHANGED <<v, w, d>> /\ res' = [NoRes EXCEPT !.ref = "ill-formed"]
       /\ op' = [NoOp EXCEPT !.name = "negate", !.dst = x]
  /\ ArithFrame

\* x < y, x == y, x != y, x > y, x <= y, x >= y
DoCompare ==
  /\ \E x \in IntObjects, y \in IntObjects :
       LET a == Contents(x)
           b == Contents(y) IN
       /\ op' = [NoOp EXCEPT !.name = "compare", !.dst = x, !.src = y]
       /\ res' = [NoRes EXCEPT !.lt = VecLess(a, b), !.eq = VecEq(a, b), !.ne = VecNe(a, b),
                              !.gt = VecGt(a, b), !.le = VecLe(a, b), !.ge = VecGe(a, b)]
  /\ UNCHANGED <<v, w, d>>
  /\ ArithFrame

Init ==
  /\ v \in Vec(Dimension, IntVals)
  /\ w \in Vec(Dimension, IntVals)
  /\ d = Zeros(Dimension2)
  /\ op = NoOp /\ res = NoRes /\ failed = FALSE
  /\ shadow = Zeros(Dimension)
  /\ bstate = "none" /\ index_ = 0 /\ vec_ = "v" /\ param = Zeros(Dimension)
  /\ accepted = <<>> /\ vec0 = Zeros(Dimension)

Next ==
  \/ DoPlusAssign
  \/ DoMinusAssign
  \/ DoTimesAssignValue
  \/ DoTimesAssignElement
  \/ DoNegate
  \/ DoCompare

Spec == Init /\ [][Next]_vars

(***************************************************************************)
(* Indexed access and construction from scalars, on v                      *)
(***************************************************************************)
\* a bounds check that is off by one
IndexGuardOffByOne(index) == index < Dimension - 1

\* assert(index < Dimension), lines 177 and 183; index is a size_type
IndexGuard(index) == index < Dimension

\* reference operator[](index): the element a checked access designates (1-based
\* position in the model's sequence)
Slot(index) == index + 1

\* vector(Args&&... args) : data_{static_cast<T>(args)...}
FromScalars(T, args) == [i \in 1..Len(args) |-> StaticCast(args[i].ty, T, args[i].raw)]

IndexFrame == UNCHANGED <<w, d, bstate, index_, vec_, param, accepted, vec0>>

\* v = vector3i(a0, a1, a2) with double arguments
DoFromScalars ==
  /\ ~failed
  /\ \E a \in Vec(Dimension, HalfVals) :
       LET args == [i \in 1..Dimension |-> Item("double", a[i])] IN
       /\ v' = FromScalars("int", args)
       /\ shadow' = [i \in 1..Dimension |-> ToInt(a[i])]
       /\ op' = [NoOp EXCEPT !.name = "from_scalars", !.arg = [ty |-> "double", elems |-> a]]
  /\ res' = NoRes
  /\ UNCHANGED failed
  /\ IndexFrame

\* v[index] = x
DoIndexWrite ==
  /\ ~failed
  /\ \E index \in 0..(Dimension + 1), x \in IntVals :
       /\ IF IndexGuard(index)
            THEN /\ v' = [v EXCEPT ![Slot(index)] = x]
                 /\ shadow' = [j \in 1..Dimension |-> IF j = index + 1 THEN x ELSE shadow[j]]
                 /\ UNCHANGED failed
            ELSE failed' = TRUE /\ UNCHANGED <<v, shadow>>
       /\ op' = [NoOp EXCEPT !.name = "index_write", !.idx = index, !.val = x]
  /\ res' = NoRes
  /\ IndexFrame

\* x = v[index]
DoIndexRead ==
  /\ ~failed
  /\ \E index \in 0..(Dimension + 1) :
       /\ IF IndexGuard(index)
            THEN res' = [NoRes EXCEPT !.val = v[Slot(index)], !.ref = "v"] /\ UNCHANGED failed
            ELSE res' = NoRes /\ failed' = TRUE
       /\ op' = [NoOp EXCEPT !.name = "index_read", !.idx = index]
  /\ UNCHANGED <<v, shadow>>
  /\ IndexFrame

InitIndex ==
  /\ v \in Vec(Dimension, IntVals)
  /\ w = Zeros(Dimension) /\ d = Zeros(Dimension2)
  /\ op = NoOp /\ res = NoRes /\ failed = FALSE
  /\ shadow = v
  /\ bstate = "none" /\ index_ = 0 /\ vec_ = "v" /\ param = Zeros(Dimension)
  /\ accepted = <<>> /\ vec0 = Zeros(Dimension)

NextIndex ==
  \/ DoFromScalars
  \/ DoIndexWrite
  \/ DoIndexRead

SpecIndex == InitIndex /\ [][NextIndex]_vars

(***************************************************************************)
(* Properties                                                              *)
(***************************************************************************)
\* y is what static_cast<T>(x) yields for x of type T2, stated without the cast:
\* a double becomes the integer nearest to it between it and zero, an int becomes
\* the double of the same value
IsConverted(T2, T, x, y) ==
  IF T2 = T THEN y = x
  ELSE IF T = "int"
    THEN IF x >= 0 THEN 2 * y <= x /\ x < 2 * y + 2
                   ELSE 2 * y >= x /\ x > 2 * y - 2
    ELSE y = 2 * x

NewContents(name) == IF name = "v" THEN v' ELSE IF name = "w" THEN w' ELSE d'

\* C1: when the initializer is destroyed its fill index must equal Dimension: a
\* chain that supplied Dimension values completes, and a chain that supplied fewer
\* (each element of a sub-vector counting as one) fails the destructor's check
\* instead of completing.
C1_DisposalChecksArity ==
  op.name = "dispose" =>
    IF Len(accepted) = Dimension
      THEN bstate = "done" /\ ~failed
      ELSE Len(accepted) < Dimension /\ failed /\ bstate # "done"

C1_Witness == op.name = "dispose" /\ failed /\ Len(accepted) = Dimension - 1

\* C2: appending a scalar requires index_ < Dimension: it stores the converted
\* value in slot index_ of the vector being initialized (v, on which the chain
\* was started) and increments index_; at
\* index_ = Dimension it fails without storing.  A sub-vector is appended element by
\* element, so a chain that is too long fails at the first value that would go to
\* slot Dimension, after the earlier values were stored.
C2_AppendContract ==
  [][ (op'.name \in {"append_scalar", "append_vector"}) =>
        LET n == IF op'.name = "append_scalar" THEN 1 ELSE op'.idx
            fits == index_ + n <= Dimension
            upto == IF fits THEN index_ + n ELSE Dimension
        IN  /\ failed' = ~fits
            /\ index_' = upto
            /\ Len(accepted') = upto
            /\ \A i \in 1..Dimension :
                 IF index_ < i /\ i <= upto
                   THEN IsConverted(accepted'[i].ty, "int", accepted'[i].raw, v'[i])
                   ELSE v'[i] = v[i]
    ]_vars

\* C3: a chain begun on v with a scalar or a sub-vector that supplies exactly
\* Dimension values leaves v itself holding the converted values of the flattened
\* stream, in order.
C3_ChainPopulatesVector ==
  bstate = "done" =>
    \A i \in 1..Dimension : IsConverted(accepted[i].ty, "int", accepted[i].raw, v[i])

\* C10: while an initializer exists, 0 <= index_ <= Dimension, index_ is the number
\* of values accepted, slots below index_ of the target vector (v, on which the
\* chain was started) hold the accepted values in order, and the slots from index_
\* on hold what they held before the chain began.
C10_BuilderInvariant ==
  bstate = "open" =>
    /\ index_ \in 0..Dimension
    /\ index_ = Len(accepted)
    /\ \A i \in 1..Dimension :
         IF i <= index_
           THEN IsConverted(accepted[i].ty, "int", accepted[i].raw, v[i])
           ELSE v[i] = vec0[i]

\* C4: a converting assignment or construction from a source of dimension
\* N2 <= N sets element i < N2 of the target to the converted element i of the
\* source and every later element to zero, whatever the target held; the source
\* and the other objects are not modified.
C4_ConversionCopiesAndZeroFills ==
  [][ (op'.name \in {"conv_assign", "conv_construct"} /\ op'.dst # op'.src) =>
        LET src == IF op'.src = "temp" THEN op'.arg.elems ELSE Contents(op'.src)
            T2  == IF op'.src = "temp" THEN op'.arg.ty ELSE TypeOf(op'.src)
            new == NewContents(op'.dst)
        IN  /\ DOMAIN new = DOMAIN Contents(op'.dst)
            /\ \A i \in DOMAIN new :
                 IF i <= Len(src) THEN IsConverted(T2, TypeOf(op'.dst), src[i], new[i])
                                  ELSE new[i] = 0
            /\ \A x \in {"v", "w", "d"} \ {op'.dst} : NewContents(x) = Contents(x)
    ]_vars

C4_Witness ==
  /\ op.name = "conv_assign" /\ op.dst = "v" /\ op.src = "d"
  /\ d = <<-1, 2>> /\ v = <<0, 1, 0>>

\* C5: assigning an object to itself through the converting assignment changes
\* no element of it.
C5_SelfAssignmentIsNoOp ==
  [][ (op'.name = "conv_assign" /\ op'.dst = op'.src) =>
        v' = v /\ w' = w /\ d' = d ]_vars

C5_Witness ==
  /\ op.name = "conv_assign" /\ op.dst = "v" /\ op.src = "v"
  /\ v = <<MaxVal, -MaxVal, MaxVal>>

\* a is smaller at the first index where a and b differ
FirstDifferenceSmaller(a, b) ==
  \E k \in 1..Len(a) : a[k] < b[k] /\ \A j \in 1..(k - 1) : a[j] = b[j]

\* C6: the six comparisons agree with the lexicographic order, element 0 most
\* significant: < is "smaller at the first difference", == is elementwise
\* equality, != > <= >= are not(==), the mirrored <, not(mirrored <), not(<), and
\* exactly one of <, ==, > holds.
C6_ComparisonsAreLexicographic ==
  op.name = "compare" =>
    LET a == Contents(op.dst)
        b == Contents(op.src)
    IN  /\ res.lt <=> FirstDifferenceSmaller(a, b)
        /\ res.eq <=> (\A i \in 1..Dimension : a[i] = b[i])
        /\ res.ne <=> ~res.eq
        /\ res.gt <=> FirstDifferenceSmaller(b, a)
        /\ res.le <=> ~FirstDifferenceSmaller(b, a)
        /\ res.ge <=> ~FirstDifferenceSmaller(a, b)
        /\ Cardinality({x \in {"lt", "eq", "gt"} : res[x]}) = 1

C6_Witness ==
  /\ op.name = "compare" /\ op.dst = "v" /\ op.src = "w"
  /\ v = <<0, MaxVal, MaxVal>> /\ w = <<MaxVal, -MaxVal, -MaxVal>>
  /\ res.lt /\ res.le /\ res.ne /\ ~res.gt

C8_NegationInPlace ==
  [][ (op'.name = "negate") =>
        /\ \A i \in 1..Dimension : NewContents(op'.dst)[i] = -Contents(op'.dst)[i]
        /\ res'.ref = op'.dst ]_vars

\* C9: an indexed access with index >= Dimension fails the check and neither reads
\* nor writes; otherwise a read of slot i returns the value most recently written
\* to slot i, or given for it at construction, and a write changes its slot only.
C9_IndexedAccess ==
  /\ v = shadow
  /\ op.name \in {"index_read", "index_write"} => (failed <=> op.idx >= Dimension)
  /\ op.name = "from_scalars" => ~failed
  /\ failed => res = NoRes
  /\ (op.name = "index_read" /\ ~failed) => (res.ref = "v" /\ res.val = shadow[op.idx + 1])

C9_Witness ==
  /\ op.name = "index_write" /\ op.idx = Dimension /\ failed
  /\ v = <<-MaxVal, 0, MaxVal>>

====
